---- MODULE Spec2Model ----
(***************************************************************************)
(* Model of make_bias_dielectric_workflow.py:                              *)
(*   - read_mp_ids_from_csv            (specification SpecCsv)             *)
(*   - create_field_sweep_for_all_materials  (specification Spec)          *)
(* Field magnitudes are integers in units of 1e-5 eV/A; lattice vectors    *)
(* are integer vectors whose third row has an integral norm, so that the   *)
(* unit vector and its multiples are exact rationals num/den.              *)
(***************************************************************************)
EXTENDS Integers, Sequences, FiniteSets, TLC

VARIABLES
    mp_ids,                 \* argument mp_ids
    max_materials,          \* argument max_materials
    E_mags,                 \* argument E_mags
    materials_to_process,   \* local, line 122
    i,                      \* loop index of enumerate(..., 1), 0 before the loop
    k,                      \* position in E_mags of the field loop, 0 outside
    pc,                     \* position in create_field_sweep_for_all_materials
    structure,              \* local structure (its lattice matrix)
    c_hat,                  \* local c_hat
    total_dirs,             \* local total_dirs
    success_count,          \* local success_count
    fail_count,             \* local fail_count
    fs,                     \* directories existing on disk
    log,                    \* calls made to the outside world during the
                            \* current loop iteration, in order
    results,                \* one entry per finished iteration, in order
    common_incar,           \* module-level dictionary common_incar
    outcome,                \* how the call ended: "none", "returned", "raised"
    csv_file,               \* the CSV file at csv_path
    csv_pos,                \* number of lines consumed by the reader
    csv_ids,                \* local mp_ids of read_mp_ids_from_csv
    csv_pc                  \* position in read_mp_ids_from_csv

vars == <<mp_ids, max_materials, E_mags, materials_to_process, i, k, pc,
          structure, c_hat, total_dirs, success_count, fail_count, fs, log,
          results, common_incar, outcome, csv_file, csv_pos, csv_ids, csv_pc>>

sweepVars == <<mp_ids, max_materials, E_mags, materials_to_process, i, k, pc,
               structure, c_hat, total_dirs, success_count, fail_count, fs,
               log, results, common_incar, outcome>>

csvVars == <<csv_file, csv_pos, csv_ids, csv_pc>>

(***************************************************************************)
(* Bounds                                                                  *)
(***************************************************************************)
MaxIds == 2      \* longest mp_ids list
MaxE == 2        \* longest E_mags list
MaxRows == 2     \* most data rows of a CSV file

Min(a, b) == IF a < b THEN a ELSE b
Max(a, b) == IF a > b THEN a ELSE b
Abs(a) == IF a < 0 THEN 0 - a ELSE a

SeqsUpTo(S, n) == UNION {[1..m -> S] : m \in 0..n}

(***************************************************************************)
(* Inputs                                                                  *)
(***************************************************************************)
IDs == {"mp-1", "mp-2"}

\* magnitudes in units of 1e-5: -0.001, 0.001 and 0.00104, which differs
\* from 0.001 below the resolution of the 4-decimal directory tag
EValues == {-100, 100, 104}

NoStructure == <<>>

\* the remote database: lattice matrix (rows a, b, c) of each material
Database(mp_id) ==
    IF mp_id = "mp-1"
    THEN <<<<4, 0, 0>>, <<0, 4, 0>>, <<0, 3, 4>>>>
    ELSE <<<<3, 0, 0>>, <<0, 3, 0>>, <<1, -2, 2>>>>

(***************************************************************************)
(* common_incar, lines 79-96 (floats kept as their literals)               *)
(***************************************************************************)
CommonIncar ==
    [LCALCEPS |-> FALSE, LCALCPOL |-> TRUE, ISMEAR |-> 0, SIGMA |-> "0.05",
     EDIFF |-> "1e-6", PREC |-> "Accurate", ADDGRID |-> TRUE, LREAL |-> FALSE,
     LCHARG |-> FALSE, LWAVE |-> FALSE, ENCUT |-> 520, NSW |-> 0,
     IBRION |-> -1, ISYM |-> 0, SYMPREC |-> "1e-8", LASPH |-> TRUE]

NoIncar == [x \in {} |-> 0]

(***************************************************************************)
(* Pure helpers                                                            *)
(***************************************************************************)
\* Python's s[:m]
Slice(s, m) ==
    IF m < 0 THEN SubSeq(s, 1, Max(Len(s) + m, 0))
             ELSE SubSeq(s, 1, Min(m, Len(s)))

Dot(u, v) == u[1] * v[1] + u[2] * v[2] + u[3] * v[3]

Cross(u, v) == <<u[2] * v[3] - u[3] * v[2],
                 u[3] * v[1] - u[1] * v[3],
                 u[1] * v[2] - u[2] * v[1]>>

\* np.linalg.norm of an integer vector whose norm is integral
Norm(v) == CHOOSE n \in 0..Dot(v, v) : n * n = Dot(v, v)

CHatOfRow0(lattice) == [num |-> lattice[1], den |-> Norm(lattice[1])]

\* line 161: matrix[2] / norm(matrix[2])
CHatOf(lattice) == [num |-> lattice[3], den |-> Norm(lattice[3])]

\* line 167: (c_hat * E).tolist()
EvecOf(ch, E) == [num |-> <<ch.num[1] * E, ch.num[2] * E, ch.num[3] * E>>,
                  den |-> ch.den]

Digits == <<"0", "1", "2", "3", "4", "5", "6", "7", "8", "9">>

RECURSIVE IntStr(_)
IntStr(n) == IF n < 10 THEN Digits[n + 1]
             ELSE IntStr(n \div 10) \o Digits[(n % 10) + 1]

\* f"{E:.4f}" for E in units of 1e-5 (no magnitude in EValues is a tie)
Fmt4(E) ==
    LET q == (Abs(E) + 5) \div 10
        f == q % 10000
    IN  (IF E < 0 THEN "-" ELSE "") \o IntStr(q \div 10000) \o "."
        \o Digits[(f \div 1000) + 1] \o Digits[((f \div 100) % 10) + 1]
        \o Digits[((f \div 10) % 10) + 1] \o Digits[(f % 10) + 1]

\* line 168
Tag(E) == "E_" \o Fmt4(E) \o "_along_001"

\* line 139
Root(mp_id) == "finite_field_sweep_" \o mp_id

\* Path.__truediv__
Join(p, name) == p \o "/" \o name

zf_incar_WithField(ci) ==
    [key \in DOMAIN ci \cup {"EFIELD_PEAD"} |->
        IF key = "EFIELD_PEAD" THEN [num |-> <<0, 0, 0>>, den |-> 1]
        ELSE ci[key]]

\* line 149: {**common_incar}
zf_incar(ci) == [key \in DOMAIN ci |-> ci[key]]

\* line 172: {**common_incar, "EFIELD_PEAD": evec, "SKIP_EDOTP": True}
field_incar(ci, evec) ==
    [key \in DOMAIN ci \cup {"EFIELD_PEAD", "SKIP_EDOTP"} |->
        IF key = "EFIELD_PEAD" THEN evec
        ELSE IF key = "SKIP_EDOTP" THEN TRUE
        ELSE ci[key]]

E_at_Reversed(mags, p) == mags[Len(mags) + 1 - p]

\* line 165: the p-th value of "for E in E_mags"
E_at(mags, p) == mags[p]

ReportedDirsNoRef(td) == td

\* line 179: total_dirs + 1
ReportedDirs(td) == td + 1

(***************************************************************************)
(* CSV files: a file is a sequence of parsed lines, each a sequence of     *)
(* cells, each a sequence of characters; the first line is the header.     *)
(* A blank line parses to the empty sequence.  Data rows are no longer     *)
(* than the header.                                                        *)
(***************************************************************************)
NoFile == [exists |-> FALSE, lines |-> <<>>]

Whitespace == {" ", "\t"}

Cells == {<<>>, <<" ">>, <<"a">>, <<" ", "b", " ">>}

Headers == {<<"material_id">>, <<"formula", "material_id">>,
            <<"material_id", "formula">>, <<"formula">>}

RowsFor(h) == SeqsUpTo(Cells, Len(h))

CsvFiles ==
    {NoFile, [exists |-> TRUE, lines |-> <<>>]}
    \cup UNION {{[exists |-> TRUE, lines |-> <<h>> \o rows] :
                    rows \in SeqsUpTo(RowsFor(h), MaxRows)} : h \in Headers}

None == [none |-> TRUE, s |-> <<>>]
Str(s) == [none |-> FALSE, s |-> s]

RECURSIVE LStrip(_)
LStrip(s) == IF s /= <<>> /\ Head(s) \in Whitespace THEN LStrip(Tail(s))
             ELSE s

RECURSIVE RStrip(_)
RStrip(s) == IF s /= <<>> /\ s[Len(s)] \in Whitespace
             THEN RStrip(SubSeq(s, 1, Len(s) - 1))
             ELSE s

\* str.strip()
Strip(s) == RStrip(LStrip(s))

\* csv.DictReader.__next__: dict(zip(fieldnames, row)), the fields the row
\* lacks filled with restval = None
DictRow(fieldnames, row) ==
    [key \in {fieldnames[j] : j \in DOMAIN fieldnames} |->
        LET at == {j \in DOMAIN fieldnames :
                      fieldnames[j] = key /\ j <= Len(row)}
        IN  IF at = {} THEN None
            ELSE Str(row[CHOOSE j \in at : \A j2 \in at : j2 <= j])]

(***************************************************************************)
(* create_field_sweep_for_all_materials                                    *)
(***************************************************************************)
Init ==
    /\ mp_ids \in SeqsUpTo(IDs, MaxIds)
    /\ max_materials \in -1..MaxIds
    /\ E_mags \in SeqsUpTo(EValues, MaxE)
    /\ materials_to_process = <<>>
    /\ i = 0
    /\ k = 0
    /\ pc = "start"
    /\ structure = NoStructure
    /\ c_hat = NoStructure
    /\ total_dirs = 0
    /\ success_count = 0
    /\ fail_count = 0
    /\ fs = {}
    /\ log = <<>>
    /\ results = <<>>
    /\ common_incar = CommonIncar
    /\ outcome = "none"
    /\ csv_file = NoFile
    /\ csv_pos = 0
    /\ csv_ids = <<>>
    /\ csv_pc = "idle"

mp_id == materials_to_process[i]

\* one call to the outside world, made for material number i
Ev(e, ok, kind, dir, E, incar) ==
    [ev |-> e, i |-> i, id |-> mp_id, ok |-> ok, kind |-> kind, dir |-> dir,
     E |-> E, incar |-> incar]

CaughtNotCounted(lg) ==
    /\ fail_count' = fail_count
    /\ log' = lg
    /\ results' = Append(results, [ok |-> FALSE, n |-> 0])
    /\ pc' = "loop"
    /\ k' = 0

\* lines 184-186: except Exception: fail_count += 1, then the next iteration
Caught(lg) ==
    /\ fail_count' = fail_count + 1
    /\ log' = lg
    /\ results' = Append(results, [ok |-> FALSE, n |-> 0])
    /\ pc' = "loop"
    /\ k' = 0

\* lines 117-126
Call ==
    /\ pc = "start"
    /\ IF mp_ids = <<>>
       THEN /\ pc' = "done"
            /\ outcome' = "returned"
            /\ UNCHANGED materials_to_process
       ELSE /\ materials_to_process' = Slice(mp_ids, max_materials)
            /\ pc' = "loop"
            /\ UNCHANGED outcome
    /\ success_count' = 0
    /\ fail_count' = 0
    /\ UNCHANGED <<mp_ids, max_materials, E_mags, i, k, structure, c_hat,
                   total_dirs, fs, log, results, common_incar>>
    /\ UNCHANGED csvVars

\* line 128
LoopHead ==
    /\ pc = "loop"
    /\ IF i < Len(materials_to_process)
       THEN /\ i' = i + 1
            /\ log' = <<>>
            /\ pc' = "fetch"
       ELSE /\ pc' = "summary"
            /\ UNCHANGED <<i, log>>
    /\ UNCHANGED <<mp_ids, max_materials, E_mags, materials_to_process, k,
                   structure, c_hat, total_dirs, success_count, fail_count,
                   fs, results, common_incar, outcome>>
    /\ UNCHANGED csvVars

\* line 135: get_structure_from_mp, which may raise
Fetch ==
    /\ pc = "fetch"
    /\ \E ok \in BOOLEAN :
         LET lg == Append(log, Ev("fetch", ok, "db", "", 0, NoIncar))
         IN  IF ok
             THEN /\ structure' = Database(mp_id)
                  /\ log' = lg
                  /\ pc' = "mkroot"
                  /\ UNCHANGED <<fail_count, k, results>>
             ELSE /\ Caught(lg)
                  /\ UNCHANGED structure
    /\ UNCHANGED <<mp_ids, max_materials, E_mags, materials_to_process, i,
                   c_hat, total_dirs, success_count, fs, common_incar,
                   outcome>>
    /\ UNCHANGED csvVars

\* lines 139-140: root.mkdir(exist_ok=True), which may raise OSError
MkRoot ==
    /\ pc = "mkroot"
    /\ \E ok \in BOOLEAN :
         LET lg == Append(log, Ev("mkdir", ok, "root", Root(mp_id), 0,
                                  NoIncar))
         IN  IF ok
             THEN /\ fs' = fs \cup {Root(mp_id)}
                  /\ log' = lg
                  /\ pc' = "zf_mkdir"
                  /\ UNCHANGED <<fail_count, k, results>>
             ELSE /\ Caught(lg)
                  /\ UNCHANGED fs
    /\ UNCHANGED <<mp_ids, max_materials, E_mags, materials_to_process, i,
                   structure, c_hat, total_dirs, success_count, common_incar,
                   outcome>>
    /\ UNCHANGED csvVars

\* lines 147-148: zf_dir.mkdir(exist_ok=True)
ZfMkdir ==
    /\ pc = "zf_mkdir"
    /\ \E ok \in BOOLEAN :
         LET zf_dir == Join(Root(mp_id), "E0_ref")
             lg == Append(log, Ev("mkdir", ok, "zf", zf_dir, 0, NoIncar))
         IN  IF ok
             THEN /\ fs' = fs \cup {zf_dir}
                  /\ log' = lg
                  /\ pc' = "zf_write"
                  /\ UNCHANGED <<fail_count, k, results>>
             ELSE /\ Caught(lg)
                  /\ UNCHANGED fs
    /\ UNCHANGED <<mp_ids, max_materials, E_mags, materials_to_process, i,
                   structure, c_hat, total_dirs, success_count, common_incar,
                   outcome>>
    /\ UNCHANGED csvVars

\* lines 149-164: zero-field write_input (may raise), then c_hat, total_dirs
ZfWrite ==
    /\ pc = "zf_write"
    /\ \E ok \in BOOLEAN :
         LET zf_dir == Join(Root(mp_id), "E0_ref")
             lg == Append(log, Ev("write", ok, "zf", zf_dir, 0,
                                  zf_incar(common_incar)))
         IN  IF ok
             THEN /\ log' = lg
                  /\ c_hat' = CHatOf(structure)
                  /\ total_dirs' = 0
                  /\ k' = 1
                  /\ pc' = "field"
                  /\ UNCHANGED <<fail_count, results>>
             ELSE /\ Caught(lg)
                  /\ UNCHANGED <<c_hat, total_dirs>>
    /\ UNCHANGED <<mp_ids, max_materials, E_mags, materials_to_process, i,
                   structure, success_count, fs, common_incar, outcome>>
    /\ UNCHANGED csvVars

\* lines 165-170: next E of the loop, its directory
FieldMkdir ==
    /\ pc = "field"
    /\ k <= Len(E_mags)
    /\ \E ok \in BOOLEAN :
         LET E == E_at(E_mags, k)
             wdir == Join(Root(mp_id), Tag(E))
             lg == Append(log, Ev("mkdir", ok, "field", wdir, E, NoIncar))
         IN  IF ok
             THEN /\ fs' = fs \cup {Root(mp_id), wdir}
                  /\ log' = lg
                  /\ pc' = "field_write"
                  /\ UNCHANGED <<fail_count, k, results>>
             ELSE /\ Caught(lg)
                  /\ UNCHANGED fs
    /\ UNCHANGED <<mp_ids, max_materials, E_mags, materials_to_process, i,
                   structure, c_hat, total_dirs, success_count, common_incar,
                   outcome>>
    /\ UNCHANGED csvVars

\* lines 172-177: the field case's write_input (may raise), total_dirs += 1
FieldWrite ==
    /\ pc = "field_write"
    /\ \E ok \in BOOLEAN :
         LET E == E_at(E_mags, k)
             evec == EvecOf(c_hat, E)
             wdir == Join(Root(mp_id), Tag(E))
             lg == Append(log, Ev("write", ok, "field", wdir, E,
                                  field_incar(common_incar, evec)))
         IN  IF ok
             THEN /\ log' = lg
                  /\ total_dirs' = total_dirs + 1
                  /\ k' = k + 1
                  /\ pc' = "field"
                  /\ UNCHANGED <<fail_count, results>>
             ELSE /\ Caught(lg)
                  /\ UNCHANGED total_dirs
    /\ UNCHANGED <<mp_ids, max_materials, E_mags, materials_to_process, i,
                   structure, c_hat, success_count, fs, common_incar,
                   outcome>>
    /\ UNCHANGED csvVars

\* lines 179-182: the field loop is exhausted
Success ==
    /\ pc = "field"
    /\ k > Len(E_mags)
    /\ results' = Append(results, [ok |-> TRUE,
                                    n |-> ReportedDirs(total_dirs)])
    /\ success_count' = success_count + 1
    /\ k' = 0
    /\ pc' = "loop"
    /\ UNCHANGED <<mp_ids, max_materials, E_mags, materials_to_process, i,
                   structure, c_hat, total_dirs, fail_count, fs, log,
                   common_incar, outcome>>
    /\ UNCHANGED csvVars

\* lines 188-191: success_count/(success_count+fail_count) raises
\* ZeroDivisionError when the divisor is 0
Summary ==
    /\ pc = "summary"
    /\ outcome' = IF success_count + fail_count = 0 THEN "raised"
                  ELSE "returned"
    /\ pc' = "done"
    /\ UNCHANGED <<mp_ids, max_materials, E_mags, materials_to_process, i, k,
                   structure, c_hat, total_dirs, success_count, fail_count,
                   fs, log, results, common_incar>>
    /\ UNCHANGED csvVars

Next ==
    \/ Call
    \/ LoopHead
    \/ Fetch
    \/ MkRoot
    \/ ZfMkdir
    \/ ZfWrite
    \/ FieldMkdir
    \/ FieldWrite
    \/ Success
    \/ Summary

Spec == Init /\ [][Next]_vars

(***************************************************************************)
(* Properties of create_field_sweep_for_all_materials                      *)
(***************************************************************************)
IsWrite(e) == e.ev = "write"
IsFieldWrite(e) == e.ev = "write" /\ e.kind = "field"

Writes == SelectSeq(log, IsWrite)
FieldWrites == SelectSeq(log, IsFieldWrite)

InIteration == pc \in {"fetch", "mkroot", "zf_mkdir", "zf_write", "field",
                       "field_write"}

\* the iteration of material i has just been counted as a success
JustSucceeded ==
    /\ pc \in {"loop", "summary", "done"}
    /\ results /= <<>>
    /\ results[Len(results)].ok

\* directory names of the documented layout, E formatted to 4 decimals
ExpectedTag(E) ==
    CASE E = 100 -> "E_0.0010_along_001"
      [] E = -100 -> "E_-0.0010_along_001"
      [] E = 104 -> "E_0.0010_along_001"

Count(seq, ok) == Cardinality({p \in DOMAIN seq : seq[p].ok = ok})

\* C1: a material processed without an exception has had write_input called
\* exactly 1 + len(E_mags) times, first for <root>/E0_ref and then once per
\* entry of E_mags for <root>/E_<E to 4 decimals>_along_001, and the count it
\* reports (total_dirs + 1) is 1 + len(E_mags).
C1_WritesPerMaterial ==
    JustSucceeded =>
        LET root == "finite_field_sweep_" \o materials_to_process[i]
        IN  /\ Len(Writes) = 1 + Len(E_mags)
            /\ \A p \in DOMAIN Writes : Writes[p].ok
            /\ Writes[1].dir = root \o "/E0_ref"
            /\ \A p \in DOMAIN E_mags :
                 Writes[p + 1].dir = root \o "/" \o ExpectedTag(E_mags[p])
            /\ results[Len(results)].n = 1 + Len(E_mags)

C1_Witness ==
    /\ JustSucceeded
    /\ i = 2
    /\ Len(E_mags) = 2
    /\ E_mags[1] /= E_mags[2]

\* C2: an exception in one material's iteration is caught and counted and
\* the remaining materials are still processed: every finished iteration is
\* in exactly one counter, each material is attempted once, and when the loop
\* has ended success_count + fail_count = len(materials_to_process).
C2_CaughtAndCounted ==
    /\ success_count = Count(results, TRUE)
    /\ fail_count = Count(results, FALSE)
    /\ Len(results) = IF InIteration THEN i - 1 ELSE i
    /\ Cardinality({p \in DOMAIN log : log[p].ev = "fetch"}) <= 1
    /\ InIteration /\ pc /= "fetch" =>
         Cardinality({p \in DOMAIN log : log[p].ev = "fetch"}) = 1
    /\ fail_count > 0 => outcome /= "raised"
    /\ pc \in {"summary", "done"} =>
         /\ i = Len(materials_to_process)
         /\ success_count + fail_count = Len(materials_to_process)

C2_Witness ==
    /\ pc = "summary"
    /\ Len(results) = 2
    /\ ~results[1].ok
    /\ results[2].ok

\* C3: materials are processed one at a time in list order; within a
\* material the fetch comes first, nothing is created or written unless the
\* fetch succeeded, the zero-field write precedes every field-case call and
\* the field writes follow the order of E_mags; the next material starts only
\* after the current one has been counted.
C3_Sequential ==
    /\ Len(results) = IF InIteration THEN i - 1 ELSE i
    /\ \A p \in DOMAIN log :
         /\ log[p].i = i
         /\ log[p].id = mp_ids[i]
         /\ (log[p].ev = "fetch") = (p = 1)
         /\ p > 1 => log[1].ok
         /\ log[p].kind = "field" =>
              \E q \in 1..(p - 1) :
                  log[q].ev = "write" /\ log[q].kind = "zf" /\ log[q].ok
    /\ \A p \in DOMAIN Writes :
         IF p = 1 THEN Writes[p].kind = "zf"
         ELSE /\ Writes[p].kind = "field"
              /\ p - 1 <= Len(E_mags)
              /\ Writes[p].E = E_mags[p - 1]

C3_Witness ==
    /\ pc = "field"
    /\ i = 2
    /\ k = 3
    /\ E_mags[1] /= E_mags[2]

\* C4: the materials processed are exactly the first
\* min(len(mp_ids), max_materials) entries of mp_ids, hence at most
\* max_materials of them, for every value of max_materials.
C4_FirstMaxMaterials ==
    (pc /= "start" /\ mp_ids /= <<>>) =>
        /\ materials_to_process =
             SubSeq(mp_ids, 1, Min(Len(mp_ids), max_materials))
        /\ Len(results) > 0 => Len(results) <= max_materials

\* C6: the zero-field settings are exactly common_incar (no EFIELD_PEAD, no
\* SKIP_EDOTP); every field case's settings are common_incar plus that
\* case's EFIELD_PEAD and SKIP_EDOTP = True; common_incar itself never changes.
C6_IncarMerge ==
    /\ common_incar = CommonIncar
    /\ \A p \in DOMAIN Writes :
         LET e == Writes[p]
         IN  IF e.kind = "zf"
             THEN /\ DOMAIN e.incar = DOMAIN CommonIncar
                  /\ \A key \in DOMAIN CommonIncar :
                       e.incar[key] = CommonIncar[key]
             ELSE /\ DOMAIN e.incar =
                       DOMAIN CommonIncar \cup {"EFIELD_PEAD", "SKIP_EDOTP"}
                  /\ \A key \in DOMAIN CommonIncar :
                       e.incar[key] = CommonIncar[key]
                  /\ e.incar["SKIP_EDOTP"] = TRUE
                  /\ e.incar["EFIELD_PEAD"] = EvecOf(c_hat, e.E)

C6_Witness ==
    /\ pc = "field"
    /\ i = 2
    /\ k = 2
    /\ Len(Writes) = 2

\* C7: each field case's EFIELD_PEAD is E times the unit vector along the
\* third lattice vector: parallel to c, of length |E|, pointing along c for
\* E > 0 and against it for E < 0 (so E and -E give opposite vectors), and
\* all field cases of a material share one direction.
C7_FieldVector ==
    \A p \in DOMAIN FieldWrites :
        LET e == FieldWrites[p]
            v == e.incar["EFIELD_PEAD"]
            c == Database(e.id)[3]
        IN  /\ v.den > 0
            /\ Cross(v.num, c) = <<0, 0, 0>>
            /\ Dot(v.num, v.num) = e.E * e.E * v.den * v.den
            /\ Dot(v.num, c) * e.E > 0
            /\ \A q \in DOMAIN FieldWrites :
                 LET w == FieldWrites[q].incar["EFIELD_PEAD"]
                     F == FieldWrites[q].E
                 IN  /\ w.den = v.den
                     /\ \A j \in 1..3 : w.num[j] * e.E = v.num[j] * F
                     /\ F = 0 - e.E =>
                          \A j \in 1..3 : w.num[j] = 0 - v.num[j]

C7_Witness ==
    /\ Len(FieldWrites) = 2
    /\ FieldWrites[1].E = 100
    /\ FieldWrites[2].E = -100
    /\ FieldWrites[1].id = "mp-2"

\* C8: the call always ends by returning normally and never by raising,
\* whatever mp_ids, max_materials, E_mags and the per-material outcomes are.
C8_ReturnsNormally ==
    /\ outcome /= "raised"
    /\ pc = "done" => outcome = "returned"

\* C9: within one successfully processed material, distinct entries of
\* E_mags go to distinct directories: no write_input call reuses another's
\* directory and the directories existing under the material's root number
\* total_dirs + 1 = 1 + len(E_mags).
C9_DistinctDirectories ==
    (/\ JustSucceeded
     /\ \A p, q \in DOMAIN E_mags : p /= q => E_mags[p] /= E_mags[q]) =>
        LET root == Root(mp_id)
            under == {Join(root, "E0_ref")}
                        \cup {Join(root, Tag(E)) : E \in EValues}
        IN  /\ \A p, q \in DOMAIN Writes :
                 p /= q => Writes[p].dir /= Writes[q].dir
            /\ Cardinality(fs \cap under) = results[Len(results)].n
            /\ results[Len(results)].n = 1 + Len(E_mags)

(***************************************************************************)
(* read_mp_ids_from_csv                                                    *)
(***************************************************************************)
InitCsv ==
    /\ csv_file \in CsvFiles
    /\ csv_pos = 0
    /\ csv_ids = <<>>
    /\ csv_pc = "open"
    /\ mp_ids = <<>>
    /\ max_materials = 0
    /\ E_mags = <<>>
    /\ materials_to_process = <<>>
    /\ i = 0
    /\ k = 0
    /\ pc = "idle"
    /\ structure = NoStructure
    /\ c_hat = NoStructure
    /\ total_dirs = 0
    /\ success_count = 0
    /\ fail_count = 0
    /\ fs = {}
    /\ log = <<>>
    /\ results = <<>>
    /\ common_incar = CommonIncar
    /\ outcome = "none"

\* lines 30-34 and 43-44: open() raises FileNotFoundError for a missing file;
\* otherwise the reader takes the first line, if any, as the header
CsvOpen ==
    /\ csv_pc = "open"
    /\ IF csv_file.exists
       THEN /\ csv_pc' = "rows"
            /\ csv_pos' = Min(1, Len(csv_file.lines))
       ELSE /\ csv_pc' = "done"
            /\ UNCHANGED csv_pos
    /\ UNCHANGED <<csv_file, csv_ids>>
    /\ UNCHANGED sweepVars

\* lines 36-38 and 45-46: one line of the file.  A blank line is skipped by
\* the reader; row['material_id'].strip() raises AttributeError when the
\* value is None, which the blanket handler catches, ending the loop
CsvRow ==
    /\ csv_pc = "rows"
    /\ csv_pos < Len(csv_file.lines)
    /\ csv_pos' = csv_pos + 1
    /\ LET row == csv_file.lines[csv_pos + 1]
           d == DictRow(csv_file.lines[1], row)
       IN  IF row = <<>> \/ "material_id" \notin DOMAIN d
           THEN UNCHANGED <<csv_ids, csv_pc>>
           ELSE IF d["material_id"].none
           THEN /\ csv_pc' = "done"
                /\ UNCHANGED csv_ids
           ELSE /\ csv_ids' =
                     IF Strip(d["material_id"].s) /= <<>>
                     THEN Append(csv_ids, Strip(d["material_id"].s))
                     ELSE csv_ids
                /\ UNCHANGED csv_pc
    /\ UNCHANGED csv_file
    /\ UNCHANGED sweepVars

\* lines 40-41 and 48: the reader is exhausted
CsvReturn ==
    /\ csv_pc = "rows"
    /\ csv_pos >= Len(csv_file.lines)
    /\ csv_pc' = "done"
    /\ UNCHANGED <<csv_file, csv_pos, csv_ids>>
    /\ UNCHANGED sweepVars

NextCsv ==
    \/ CsvOpen
    \/ CsvRow
    \/ CsvReturn

SpecCsv == InitCsv /\ [][NextCsv]_vars

(***************************************************************************)
(* Properties of read_mp_ids_from_csv                                      *)
(***************************************************************************)
\* position of the material_id column, 0 when the header has none
IdColumn(header) ==
    IF \E j \in DOMAIN header : header[j] = "material_id"
    THEN CHOOSE j \in DOMAIN header : header[j] = "material_id"
    ELSE 0

NonWhitespace(cell) == \E p \in DOMAIN cell : cell[p] \notin Whitespace

\* the stripped value: the cell from its first to its last non-blank character
Trimmed(cell) ==
    LET nb == {p \in DOMAIN cell : cell[p] \notin Whitespace}
        lo == CHOOSE p \in nb : \A q \in nb : p <= q
        hi == CHOOSE p \in nb : \A q \in nb : q <= p
    IN  SubSeq(cell, lo, hi)

HasId(header, row) ==
    /\ IdColumn(header) \in DOMAIN row
    /\ NonWhitespace(row[IdColumn(header)])

RECURSIVE IdsOfRows(_, _)
IdsOfRows(header, rows) ==
    IF rows = <<>> THEN <<>>
    ELSE (IF HasId(header, Head(rows))
          THEN <<Trimmed(Head(rows)[IdColumn(header)])>>
          ELSE <<>>) \o IdsOfRows(header, Tail(rows))

\* C5: for a readable file the function returns exactly the stripped
\* material_id of every data row whose material_id is non-blank, in row
\* order; rows with a blank or absent material_id are skipped and never cost
\* a later row its ID.
C5_AllIdsReturned ==
    (csv_pc = "done" /\ csv_file.exists /\ csv_file.lines /= <<>>) =>
        csv_ids = IdsOfRows(csv_file.lines[1], Tail(csv_file.lines))

====
